---- MODULE Spec2Model ----
(***************************************************************************)
(* Model of src/rust/src/main.rs: main runs draw_cube (nine modeling       *)
(* commands sent over the write half of a WebSocket, then the half is      *)
(* dropped) and then export_png (a receive loop over the read half, under  *)
(* a 10 second timeout, that decodes and saves the snapshot image).        *)
(***************************************************************************)
EXTENDS Integers, Sequences, FiniteSets, TLC

VARIABLES
    pc,          \* position of main: "draw_cube", "export_png", "done"
    outcome,     \* what main has returned: [status, error, msg]
    width,       \* draw_cube's width argument
    uuids,       \* number of Uuid::new_v4() calls made so far
    path_id,     \* draw_cube's path_id (0 before line 63 has run)
    sent,        \* messages written to write_to_ws, in order
    attempts,    \* number of write_to_ws.send(..) calls made
    writeDrops,  \* number of times write_to_ws has been dropped
    inbound,     \* items read_from_ws.next() has yielded so far, in order
    streamEnded, \* read_from_ws.next() has yielded None
    timedOut,    \* tokio's timeout has returned Elapsed
    decoderIn,   \* byte strings handed to image::io::Reader, in order
    file,        \* what img_output_path holds
    text,        \* a text frame given to ws_resp_from_text on its own
    decoded      \* what ws_resp_from_text returned for it

vars == <<pc, outcome, width, uuids, path_id, sent, attempts, writeDrops,
          inbound, streamEnded, timedOut, decoderIn, file, text, decoded>>

drawVars == <<width, uuids, path_id, sent, attempts, writeDrops>>
recvVars == <<inbound, streamEnded, timedOut, decoderIn, file>>
probeVars == <<text, decoded>>

----------------------------------------------------------------------------
(* Bounds of the model *)

\* the longest inbound stream prefix the receive loop is followed over
MaxFrames == 3

\* the largest half-width draw_cube is called with
MaxWidth == 3

Widths == 1..MaxWidth

----------------------------------------------------------------------------
(* Results *)

Running == [status |-> "running", error |-> "none", msg |-> <<>>]
Ok == [status |-> "Ok", error |-> "none", msg |-> <<>>]
Err(e, m) == [status |-> "Err", error |-> e, msg |-> m]
Panic == [status |-> "Panic", error |-> "assertion failed", msg |-> <<>>]

----------------------------------------------------------------------------
(* draw_cube *)

\* Point3D { x, y, z }
Point3D(x, y, z) == [x |-> x, y |-> y, z |-> z]

start(w) == Point3D(-w, -w, -w)

\* points with the sign of the last corner's z slipped: the path stays open
pointsNotClosed(w) ==
    << Point3D(w, -w, -w), Point3D(w, w, -w), Point3D(-w, w, -w),
       Point3D(-w, -w, w) >>

\* points with the second and third corner exchanged
pointsSwapped(w) ==
    << Point3D(w, -w, -w), Point3D(-w, w, -w), Point3D(w, w, -w),
       Point3D(-w, -w, -w) >>

points(w) ==
    << Point3D(w, -w, -w), Point3D(w, w, -w), Point3D(-w, w, -w), start(w) >>

ExtendPath(pid, point) ==
    [type |-> "ExtendPath", path |-> pid,
     segment |-> [type |-> "Line", end |-> point, relative |-> FALSE]]

\* DrawCubeCmds with Extrude given another identifier than path_id
DrawCubeCmdsOtherTarget(w, pid) ==
    << [type |-> "StartPath"],
       [type |-> "MovePathPen", path |-> pid, to |-> start(w)] >>
    \o [i \in 1..Len(points(w)) |-> ExtendPath(pid, points(w)[i])]
    \o << [type |-> "ClosePath", path_id |-> pid],
          [type |-> "Extrude", cap |-> TRUE, distance |-> w * 2, target |-> pid + 1],
          [type |-> "TakeSnapshot", format |-> "Png"] >>

\* the commands draw_cube sends, in program order
DrawCubeCmds(w, pid) ==
    << [type |-> "StartPath"],
       [type |-> "MovePathPen", path |-> pid, to |-> start(w)] >>
    \o [i \in 1..Len(points(w)) |-> ExtendPath(pid, points(w)[i])]
    \o << [type |-> "ClosePath", path_id |-> pid],
          [type |-> "Extrude", cap |-> TRUE, distance |-> w * 2, target |-> pid],
          [type |-> "TakeSnapshot", format |-> "Png"] >>

\* the closure to_msg: the JSON text of WebSocketRequest::ModelingCmdReq
to_msg(cmd, cmd_id) ==
    [type |-> "modeling_cmd_req", cmd |-> cmd, cmd_id |-> cmd_id]

\* Uuid::new_v4(): a random 128-bit identifier, modelled as the next unused one
NewUuid == uuids + 1

\* CmdIdOf with path_id passed as the cmd_id of every message
CmdIdOfReused(k, pid, fresh) == pid

\* the cmd_id of the k-th message: StartPath carries path_id, the others a new uuid
CmdIdOf(k, pid, fresh) == IF k = 1 THEN pid ELSE fresh

\* OnSendError with the error of a send discarded: main goes on to export_png
OnSendErrorIgnored == [pc |-> "export_png", outcome |-> Running, drops |-> 1]

\* OnSendError with write_to_ws only borrowed by draw_cube: an early return
\* does not drop it
OnSendErrorNoDrop == [pc |-> "done", outcome |-> Err("SendError", <<>>), drops |-> 0]

\* what a failed send does: the ? returns the error from draw_cube, whose
\* return drops write_to_ws, and the ? of main returns it from main
OnSendError == [pc |-> "done", outcome |-> Err("SendError", <<>>), drops |-> 1]

\* where main goes once draw_cube has returned Ok
AfterDrawCube == "export_png"

\* one write_to_ws.send(to_msg(..)).await?, with everything before it since
\* the previous send; ok is whether the sink accepted the message
Send(ok) ==
    /\ pc = "draw_cube"
    /\ Len(sent) < Len(DrawCubeCmds(width, 0))
    /\ LET k == Len(sent) + 1
           pid == IF k = 1 THEN NewUuid ELSE path_id
           msg == to_msg(DrawCubeCmds(width, pid)[k], CmdIdOf(k, pid, NewUuid))
       IN /\ uuids' = NewUuid
          /\ path_id' = pid
          /\ attempts' = attempts + 1
          /\ IF ok
             THEN /\ sent' = Append(sent, msg)
                  /\ UNCHANGED <<pc, outcome, writeDrops>>
             ELSE /\ sent' = sent
                  /\ writeDrops' = writeDrops + OnSendError.drops
                  /\ outcome' = OnSendError.outcome
                  /\ pc' = OnSendError.pc
    /\ UNCHANGED <<width, recvVars, probeVars>>

SendOk == Send(TRUE)
SendErr == Send(FALSE)

\* drop(write_to_ws); Ok(()) and main's call of export_png
FinishSending ==
    /\ pc = "draw_cube"
    /\ Len(sent) = Len(DrawCubeCmds(width, 0))
    /\ writeDrops' = writeDrops + 1
    /\ pc' = AfterDrawCube
    /\ UNCHANGED <<outcome, width, uuids, path_id, sent, attempts, recvVars, probeVars>>

----------------------------------------------------------------------------
(* Inbound frames *)

\* Option<T>: None, Some(v)
None == <<>>
Some(v) == <<v>>

\* the resp field of an inbound JSON object: missing, present but no
\* OkWebSocketResponseData, or one of its variants
Resp(tag, modeling_response, data) ==
    [tag |-> tag, modeling_response |-> modeling_response, data |-> data]

RespAbsent == Resp("absent", "none", "none")
RespInvalid == Resp("invalid", "none", "none")
RespEmpty == Resp("Modeling", "Empty", "none")
RespSnapshot(data) == Resp("Modeling", "TakeSnapshot", data)
RespOtherModeling == Resp("Modeling", "other", "none")
RespNonModeling == Resp("other", "none", "none")

\* byte strings a TakeSnapshot response carries: a PNG image, and bytes that
\* are no PNG
SnapshotData == {"png", "corrupt"}

Resps ==
    {RespAbsent, RespInvalid, RespEmpty, RespOtherModeling, RespNonModeling}
    \cup {RespSnapshot(d) : d \in SnapshotData}

\* the errors field: missing, or a list of error messages
ErrorLists == {<<>>, <<"e1">>, <<"e1", "e2">>, <<"e2", "e1">>}
ErrorOpts == {None} \cup {Some(l) : l \in ErrorLists}

\* the JSON text of a frame, by the fields the two response structs read
Text(success, resp, errors) ==
    [success |-> success, resp |-> resp, errors |-> errors]

TextFrames ==
    {Text(s, r, e) : s \in {None, Some(TRUE), Some(FALSE)}, r \in Resps, e \in ErrorOpts}

NoText == Text(None, RespAbsent, None)

\* an item of read_from_ws: Ok(WsMsg::Text/Pong/Binary/Ping/Close) or Err
Item(kind, t) == [kind |-> kind, text |-> t]

\* the texts the receive loop is followed over
StreamTexts ==
    {t \in TextFrames : t.errors \in {None, Some(<<"e1", "e2">>)}}

StreamItems ==
    {Item("Text", t) : t \in StreamTexts}
    \cup {Item(k, NoText) : k \in {"Pong", "Binary", "Ping", "Close", "Err"}}

----------------------------------------------------------------------------
(* export_png *)

\* #[serde(untagged)] enum WebSocketResponse: the variants are tried in the
\* order written; a struct matches when its fields are there (others ignored)
IsSuccessShape(t) ==
    /\ t.success # None
    /\ t.resp.tag \notin {"absent", "invalid"}

IsFailureShape(t) ==
    /\ t.success # None
    /\ t.errors # None

\* Pop taking the first element instead of the last
PopFirst(errors) == IF errors = <<>> THEN None ELSE Some(errors[1])

\* f.errors.pop(): the last element, if any
Pop(errors) == IF errors = <<>> THEN None ELSE Some(errors[Len(errors)])

\* the error of the Failure arm
FailureError(errors) ==
    IF Pop(errors) = None
    THEN Err("RemoteError", <<"websocket failure, no error given">>)
    ELSE Err("RemoteError", <<"websocket failure: ", Pop(errors)[1]>>)

\* what ws_resp_from_text returns: Ok(resp), an error or a failed assertion
Decoded(res, resp) == [res |-> res, resp |-> resp]

ws_resp_from_text(t) ==
    IF IsSuccessShape(t)
    THEN IF t.success[1] THEN Decoded(Ok, t.resp) ELSE Decoded(Panic, RespAbsent)
    ELSE IF IsFailureShape(t)
    THEN IF ~t.success[1]
         THEN Decoded(FailureError(t.errors[1]), RespAbsent)
         ELSE Decoded(Panic, RespAbsent)
    ELSE Decoded(Err("MalformedFrame", <<>>), RespAbsent)

\* text_from_ws with the Pong arm left out: a Pong falls to the last arm
text_from_wsNoPongArm(msg) ==
    IF msg.kind = "Text" THEN Decoded(Ok, Some(msg.text))
    ELSE Decoded(Err("UnexpectedFrameKind", <<>>), None)

\* text_from_ws with every frame that is no text ignored
text_from_wsIgnoreOthers(msg) ==
    IF msg.kind = "Text" THEN Decoded(Ok, Some(msg.text))
    ELSE Decoded(Ok, None)

\* what text_from_ws returns: Ok(Some(text)), Ok(None) or an error
text_from_ws(msg) ==
    IF msg.kind = "Text" THEN Decoded(Ok, Some(msg.text))
    ELSE IF msg.kind = "Pong" THEN Decoded(Ok, None)
    ELSE Decoded(Err("UnexpectedFrameKind", <<>>), None)

\* img.decode() with the format set to PNG
DecodesAsPng(data) == data = "png"

\* one pass of the while loop's body on what next() yielded; saveOk is
\* whether img.save succeeds.  next: "continue", "break" or "return" (with
\* the result in res); decode: the bytes given to the image reader, if any;
\* save: the bytes of the image saved, if any
Pass(next, res, decode, save) ==
    [next |-> next, res |-> res, decode |-> decode, save |-> save]

\* OnSnapshot with the bytes written to the output path before decoding them
OnSnapshotWriteFirst(data, saveOk) ==
    IF ~DecodesAsPng(data)
    THEN Pass("return", Err("DecodeError", <<>>), Some(data), Some(data))
    ELSE IF ~saveOk
    THEN Pass("return", Err("IOError", <<>>), Some(data), None)
    ELSE Pass("break", Ok, Some(data), Some(data))

\* OnSnapshot with the break left out: the loop goes on after saving
OnSnapshotNoBreak(data, saveOk) ==
    IF ~DecodesAsPng(data)
    THEN Pass("return", Err("DecodeError", <<>>), Some(data), None)
    ELSE IF ~saveOk
    THEN Pass("return", Err("IOError", <<>>), Some(data), None)
    ELSE Pass("continue", Ok, Some(data), Some(data))

OnSnapshot(data, saveOk) ==
    IF ~DecodesAsPng(data)
    THEN Pass("return", Err("DecodeError", <<>>), Some(data), None)
    ELSE IF ~saveOk
    THEN Pass("return", Err("IOError", <<>>), Some(data), None)
    ELSE Pass("break", Ok, Some(data), Some(data))

\* OnResponse with every Modeling response taken for the snapshot
OnResponseAnyModeling(resp, saveOk) ==
    IF resp.tag = "Modeling"
    THEN OnSnapshot(resp.data, saveOk)
    ELSE Pass("continue", Ok, None, None)

OnResponse(resp, saveOk) ==
    IF resp.tag = "Modeling" /\ resp.modeling_response = "TakeSnapshot"
    THEN OnSnapshot(resp.data, saveOk)
    ELSE Pass("continue", Ok, None, None)

\* OnText with a frame that fails to decode skipped instead of returned
OnTextSkipErrors(t, saveOk) ==
    LET r == ws_resp_from_text(t)
    IN IF r.res = Ok
       THEN OnResponse(r.resp, saveOk)
       ELSE Pass("continue", Ok, None, None)

OnText(t, saveOk) ==
    LET r == ws_resp_from_text(t)
    IN IF r.res = Ok
       THEN OnResponse(r.resp, saveOk)
       ELSE Pass("return", r.res, None, None)

LoopBody(item, saveOk) ==
    IF item.kind = "Err"
    THEN Pass("return", Err("TransportError", <<>>), None, None)
    ELSE LET m == text_from_ws(item)
         IN IF m.res # Ok THEN Pass("return", m.res, None, None)
            ELSE IF m.resp = None THEN Pass("continue", Ok, None, None)
            ELSE OnText(m.resp[1], saveOk)

\* what the async block returns when the while loop has ended
LoopEnded == Ok

\* Elapsed with the timeout's result discarded instead of returned
ElapsedIgnored == Ok

\* timeout(..).await?? when the timer fires
Elapsed == Err("Timeout", <<>>)

\* RecvFrame with the receive loop started alongside draw_cube
RecvFrameConcurrent ==
    /\ pc \in {"draw_cube", "export_png"}
    /\ Len(inbound) < MaxFrames
    /\ \E item \in StreamItems, saveOk \in BOOLEAN :
         LET p == LoopBody(item, saveOk)
         IN /\ inbound' = Append(inbound, item)
            /\ decoderIn' = decoderIn \o p.decode
            /\ file' = IF p.save = None THEN file ELSE p.save
            /\ IF p.next = "continue"
               THEN UNCHANGED <<pc, outcome>>
               ELSE /\ pc' = "done"
                    /\ outcome' = IF p.next = "break" THEN LoopEnded ELSE p.res
    /\ UNCHANGED <<drawVars, streamEnded, timedOut, probeVars>>

\* read_from_ws.next().await yields an item and the loop body runs on it
RecvFrame ==
    /\ pc = "export_png"
    /\ Len(inbound) < MaxFrames
    /\ \E item \in StreamItems, saveOk \in BOOLEAN :
         LET p == LoopBody(item, saveOk)
         IN /\ inbound' = Append(inbound, item)
            /\ decoderIn' = decoderIn \o p.decode
            /\ file' = IF p.save = None THEN file ELSE p.save
            /\ IF p.next = "continue"
               THEN UNCHANGED <<pc, outcome>>
               ELSE /\ pc' = "done"
                    /\ outcome' = IF p.next = "break" THEN LoopEnded ELSE p.res
    /\ UNCHANGED <<drawVars, streamEnded, timedOut, probeVars>>

\* read_from_ws.next().await yields None: the while loop ends
RecvEnd ==
    /\ pc = "export_png"
    /\ streamEnded' = TRUE
    /\ pc' = "done"
    /\ outcome' = LoopEnded
    /\ UNCHANGED <<drawVars, inbound, timedOut, decoderIn, file, probeVars>>

\* RecvTimeout with the loop awaited outside any timeout: the timer never fires
RecvTimeoutNever == FALSE /\ UNCHANGED vars

\* the 10 seconds pass while next() is pending: the loop's future is dropped
RecvTimeout ==
    /\ pc = "export_png"
    /\ timedOut' = TRUE
    /\ pc' = "done"
    /\ outcome' = Elapsed
    /\ UNCHANGED <<drawVars, inbound, streamEnded, decoderIn, file, probeVars>>

----------------------------------------------------------------------------
(* ws_resp_from_text on its own *)

NotDecoded == Decoded(Running, RespAbsent)

Decode ==
    /\ pc = "decode"
    /\ decoded = NotDecoded
    /\ decoded' = ws_resp_from_text(text)
    /\ UNCHANGED <<pc, outcome, drawVars, recvVars, text>>

----------------------------------------------------------------------------
(* Specifications *)

NoFile == None

InitRun ==
    /\ outcome = Running
    /\ uuids = 0
    /\ path_id = 0
    /\ sent = <<>>
    /\ attempts = 0
    /\ writeDrops = 0
    /\ inbound = <<>>
    /\ streamEnded = FALSE
    /\ timedOut = FALSE
    /\ decoderIn = <<>>
    /\ file = NoFile
    /\ decoded = NotDecoded

\* main at line 42, the socket open and split
Init ==
    /\ InitRun
    /\ pc = "draw_cube"
    /\ width \in Widths
    /\ text = NoText

Next ==
    \/ SendOk
    \/ SendErr
    \/ FinishSending
    \/ RecvFrame
    \/ RecvEnd
    \/ RecvTimeout

Spec == Init /\ [][Next]_vars

\* the run with the timer of line 201 sure to fire if the loop is still waiting
LiveSpec == Spec /\ WF_vars(RecvTimeout)

\* ws_resp_from_text applied to each text frame
InitDecode ==
    /\ InitRun
    /\ pc = "decode"
    /\ width = 1
    /\ text \in TextFrames

NextDecode == Decode

DecodeSpec == InitDecode /\ [][NextDecode]_vars

----------------------------------------------------------------------------
(* The claims *)

IsText(item) == item.kind = "Text"

\* a text frame carrying a successful Modeling response of the given kind
IsModelingFrame(item, kind) ==
    /\ IsText(item)
    /\ item.text.success = Some(TRUE)
    /\ item.text.resp.tag = "Modeling"
    /\ item.text.resp.modeling_response = kind

IsEmptyAck(item) == IsModelingFrame(item, "Empty")
IsSnapshotFrame(item) == IsModelingFrame(item, "TakeSnapshot")

NoSnapshotReceived == \A i \in 1..Len(inbound) : ~IsSnapshotFrame(inbound[i])

\* C1: when the inbound stream ends before any Modeling/TakeSnapshot frame
\* has been received, export_png returns an error, never success.
C1_StreamEndIsError ==
    (streamEnded /\ NoSnapshotReceived) => outcome.status = "Err"

\* C2: a terminated run of main reports success if and only if the image
\* file was written.
C2_SuccessIffImageWritten ==
    pc = "done" => (outcome.status = "Ok" <=> file # NoFile)

\* C3: once N Empty acknowledgements followed by one TakeSnapshot frame have
\* been pulled, exactly those N+1 frames have been pulled, for good, and the
\* image decoder has been handed the snapshot's data and nothing else.
C3_SnapshotEndsLoop ==
    \A n \in 1..Len(inbound) :
        ( /\ IsSnapshotFrame(inbound[n])
          /\ \A i \in 1..(n - 1) : IsEmptyAck(inbound[i]) )
        => /\ Len(inbound) = n
           /\ pc = "done"
           /\ decoderIn = <<inbound[n].text.resp.data>>

C3_Witness ==
    /\ Len(inbound) = 3
    /\ IsEmptyAck(inbound[1])
    /\ IsEmptyAck(inbound[2])
    /\ IsSnapshotFrame(inbound[3])
    /\ decoderIn = <<"png">>
    /\ file = Some("png")

\* C4: when the timeout fires, export_png fails with a Timeout error
\* whatever number of frames was consumed before, no image file is written,
\* and no frame is pulled afterwards.
C4_TimeoutFails ==
    /\ [](timedOut =>
            /\ pc = "done"
            /\ outcome = Err("Timeout", <<>>)
            /\ file = NoFile
            /\ decoderIn = <<>>)
    /\ [][timedOut => inbound' = inbound]_vars

C4_Witness ==
    /\ timedOut
    /\ Len(inbound) = 2
    /\ outcome.error = "Timeout"

\* C5: the receive loop always eventually terminates, whatever the inbound
\* stream does, given that the timer fires if the loop is still waiting.
C5_ReceiveLoopTerminates == (pc = "export_png") ~> (pc = "done")

\* a loop that pulled only frames it skips, and was ended by the timer
C5_Witness ==
    /\ pc = "done"
    /\ timedOut
    /\ Len(inbound) >= 2
    /\ \A i \in 1..Len(inbound) :
         inbound[i].kind = "Pong" \/ IsEmptyAck(inbound[i])

\* the nine commands of the claim, by type, and the corners the four
\* ExtendPath segments end at
ClaimedTypes ==
    << "StartPath", "MovePathPen", "ExtendPath", "ExtendPath", "ExtendPath",
       "ExtendPath", "ClosePath", "Extrude", "TakeSnapshot" >>

ClaimedCorners(w) ==
    << [x |-> w, y |-> -w, z |-> -w], [x |-> w, y |-> w, z |-> -w],
       [x |-> -w, y |-> w, z |-> -w], [x |-> -w, y |-> -w, z |-> -w] >>

SendHasFailed == attempts > Len(sent)

\* C6: the messages sent are always a prefix of StartPath, MovePathPen, four
\* ExtendPath (corners in the listed order), ClosePath, Extrude, TakeSnapshot;
\* when draw_cube has returned with no send failed, all nine were sent.
C6_NineCommandsInOrder ==
    /\ Len(sent) <= Len(ClaimedTypes)
    /\ \A i \in 1..Len(sent) :
         /\ sent[i].cmd.type = ClaimedTypes[i]
         /\ sent[i].cmd.type = "ExtendPath"
              => sent[i].cmd.segment.end = ClaimedCorners(width)[i - 2]
    /\ (pc # "draw_cube" /\ ~SendHasFailed) => Len(sent) = Len(ClaimedTypes)

C6_Witness ==
    /\ pc = "export_png"
    /\ ~SendHasFailed
    /\ Len(sent) = 9
    /\ sent[9].cmd.type = "TakeSnapshot"

\* C7: once a send has failed, it was the last send attempted, main has
\* returned an error, the receive loop has not run and no image is written.
C7_SendFailureAborts ==
    SendHasFailed =>
        /\ attempts = Len(sent) + 1
        /\ pc = "done"
        /\ outcome.status = "Err"
        /\ inbound = <<>>
        /\ ~streamEnded
        /\ ~timedOut
        /\ decoderIn = <<>>
        /\ file = NoFile

\* the fifth send failed
C7_Witness ==
    /\ SendHasFailed
    /\ Len(sent) = 4
    /\ pc = "done"

\* C8: write_to_ws is dropped exactly once by the time draw_cube has
\* returned, with or without a failed send, never before, nothing is sent
\* after the drop, and with no failed send the drop follows the TakeSnapshot
\* send.
C8_ClosedExactlyOnce ==
    /\ [](pc = "draw_cube" => writeDrops = 0)
    /\ [](pc # "draw_cube" => writeDrops = 1)
    /\ []((writeDrops = 1 /\ ~SendHasFailed)
            => (sent # <<>> /\ sent[Len(sent)].cmd.type = "TakeSnapshot"))
    /\ [][writeDrops >= 1 => (sent' = sent /\ attempts' = attempts)]_vars

\* a run whose third send failed
C8_Witness ==
    /\ SendHasFailed
    /\ Len(sent) = 2
    /\ writeDrops = 1

\* a text frame that matches neither envelope shape
MatchesNoShape(t) ==
    \/ t.success = None
    \/ t.resp.tag \in {"absent", "invalid"} /\ t.errors = None

\* a Failure envelope: success false, an errors list, no response payload
IsFailureEnvelope(t) ==
    /\ t.success = Some(FALSE)
    /\ t.errors # None
    /\ t.resp.tag \in {"absent", "invalid"}

\* C9: a text frame that matches neither envelope shape, or is a Failure
\* envelope, is the last frame pulled: export_png has returned an error and
\* no image file is written.
C9_DecodeFailureStopsLoop ==
    \A n \in 1..Len(inbound) :
        ( /\ IsText(inbound[n])
          /\ MatchesNoShape(inbound[n].text) \/ IsFailureEnvelope(inbound[n].text) )
        => /\ Len(inbound) = n
           /\ pc = "done"
           /\ outcome.status = "Err"
           /\ outcome.error \in {"MalformedFrame", "RemoteError"}
           /\ file = NoFile

\* a Failure envelope pulled after an acknowledgement
C9_Witness ==
    /\ Len(inbound) = 2
    /\ IsEmptyAck(inbound[1])
    /\ IsText(inbound[2])
    /\ IsFailureEnvelope(inbound[2].text)
    /\ outcome.error = "RemoteError"

C11_SuccessTrueNeverRemoteError ==
    (decoded # NotDecoded /\ text.success = Some(TRUE)) =>
        \/ decoded = Decoded(Ok, text.resp)
        \/ decoded.res = Err("MalformedFrame", <<>>)

\* the frame just pulled, and whether this step pulled one
LastPulled == inbound[Len(inbound)]
PullsFrame == Len(inbound') = Len(inbound) + 1

\* the control frames that keep a WebSocket alive
KeepAliveKinds == {"Ping", "Pong"}

C13_BinaryFrameFails ==
    \A n \in 1..Len(inbound) :
        inbound[n].kind = "Binary"
        => /\ Len(inbound) = n
           /\ pc = "done"
           /\ outcome = Err("UnexpectedFrameKind", <<>>)
           /\ file = NoFile

\* a binary frame pulled after an acknowledgement
C13_Witness ==
    /\ Len(inbound) = 2
    /\ IsEmptyAck(inbound[1])
    /\ inbound[2].kind = "Binary"
    /\ outcome.error = "UnexpectedFrameKind"

\* C14: the cmd_ids of the messages sent in one run are pairwise distinct.
C14_CmdIdsDistinct ==
    \A i, j \in 1..Len(sent) : i # j => sent[i].cmd_id # sent[j].cmd_id

\* all nine messages sent
C14_Witness ==
    /\ Len(sent) = 9
    /\ pc = "export_png"
    /\ Cardinality({sent[i].cmd_id : i \in 1..Len(sent)}) = 9

\* the path identifier a path-scoped command carries
PathScoped == {"MovePathPen", "ExtendPath", "ClosePath", "Extrude"}

PathOf(cmd) ==
    CASE cmd.type = "MovePathPen" -> cmd.path
      [] cmd.type = "ExtendPath" -> cmd.path
      [] cmd.type = "ClosePath" -> cmd.path_id
      [] cmd.type = "Extrude" -> cmd.target

\* C15: every path-scoped command sent carries the cmd_id of the StartPath
\* message of the run; that identifier is the cmd_id of no other message and
\* path_id, once generated, never changes.
C15_PathIdIsStartPathCmdId ==
    /\ [](\A i \in 1..Len(sent) :
            /\ sent[i].cmd.type \in PathScoped
                 => PathOf(sent[i].cmd) = sent[1].cmd_id
            /\ i > 1 => sent[i].cmd_id # sent[1].cmd_id)
    /\ [](sent # <<>> => (sent[1].cmd.type = "StartPath" /\ sent[1].cmd_id = path_id))
    /\ [][path_id # 0 => path_id' = path_id]_vars

\* the run has sent the Extrude command
C15_Witness ==
    /\ Len(sent) >= 8
    /\ sent[8].cmd.type = "Extrude"
    /\ sent[8].cmd.target = sent[1].cmd_id
    /\ sent[7].cmd.path_id = sent[1].cmd_id

\* C16: the fourth ExtendPath segment ends at the MovePathPen start point,
\* every segment is sent with relative = false, and the Extrude distance is
\* twice the half-width.
C16_ClosedLoopAndDistance ==
    /\ Len(sent) >= 6 =>
         /\ sent[6].cmd.type = "ExtendPath"
         /\ sent[2].cmd.type = "MovePathPen"
         /\ sent[6].cmd.segment.end = sent[2].cmd.to
    /\ \A i \in 1..Len(sent) :
         /\ sent[i].cmd.type = "ExtendPath" => sent[i].cmd.segment.relative = FALSE
         /\ sent[i].cmd.type = "Extrude" => sent[i].cmd.distance = 2 * width

\* a run with half-width 2 that has sent everything
C16_Witness ==
    /\ width = 2
    /\ Len(sent) = 9
    /\ sent[6].cmd.segment.end = sent[2].cmd.to
    /\ sent[8].cmd.distance = 4

\* C17: when the data of the TakeSnapshot frame is no decodable PNG,
\* export_png fails with a decode error at that frame and nothing is written
\* at the output path.
C17_CorruptPngWritesNoFile ==
    \A n \in 1..Len(inbound) :
        (IsSnapshotFrame(inbound[n]) /\ inbound[n].text.resp.data = "corrupt")
        => /\ Len(inbound) = n
           /\ pc = "done"
           /\ outcome = Err("DecodeError", <<>>)
           /\ decoderIn = <<"corrupt">>
           /\ file = NoFile

\* corrupt snapshot data pulled after an acknowledgement
C17_Witness ==
    /\ Len(inbound) = 2
    /\ IsEmptyAck(inbound[1])
    /\ IsSnapshotFrame(inbound[2])
    /\ inbound[2].text.resp.data = "corrupt"
    /\ outcome.error = "DecodeError"

\* a successful response that is not Modeling/TakeSnapshot
IsDiscardedFrame(item) ==
    /\ IsText(item)
    /\ item.text.success = Some(TRUE)
    /\ item.text.resp.tag \in {"Modeling", "other"}
    /\ item.text.resp.modeling_response # "TakeSnapshot"

\* C18: the image decoder is invoked at most once, and only on a
\* Modeling/TakeSnapshot frame, after which no frame is pulled; pulling any
\* other successful response invokes no decoder and does not end the loop.
C18_DecoderAtMostOnce ==
    /\ [](Len(decoderIn) <= 1)
    /\ [](decoderIn # <<>> =>
            /\ inbound # <<>>
            /\ IsSnapshotFrame(LastPulled)
            /\ decoderIn = <<LastPulled.text.resp.data>>
            /\ pc = "done")
    /\ [][decoderIn # <<>> => inbound' = inbound]_vars
    /\ [][(PullsFrame /\ IsDiscardedFrame(inbound'[Len(inbound')]))
            => UNCHANGED <<pc, outcome, decoderIn, file>>]_vars

\* an Empty, another Modeling and a non-Modeling response pulled, the loop
\* still running and the decoder not invoked
C18_Witness ==
    /\ Len(inbound) = 3
    /\ inbound[1].text.resp = RespEmpty
    /\ inbound[2].text.resp = RespOtherModeling
    /\ inbound[3].text.resp = RespNonModeling
    /\ \A i \in 1..3 : IsDiscardedFrame(inbound[i])
    /\ pc = "export_png"
    /\ decoderIn = <<>>

ReceiveStarted == inbound # <<>> \/ streamEnded \/ timedOut

\* C19: no inbound frame is pulled before all nine commands are sent and
\* write_to_ws is dropped, draw_cube pulls nothing between its sends, and
\* nothing is sent once draw_cube has returned.
C19_SendsThenReceives ==
    /\ [](ReceiveStarted => (Len(sent) = 9 /\ writeDrops = 1 /\ pc # "draw_cube"))
    /\ [](pc = "draw_cube" => ~ReceiveStarted)
    /\ [][pc # "draw_cube" => (sent' = sent /\ attempts' = attempts)]_vars
    /\ [][Len(sent') > Len(sent) => inbound = <<>>]_vars

\* the receive loop has pulled a frame and is still running
C19_Witness ==
    /\ pc = "export_png"
    /\ Len(inbound) = 1
    /\ Len(sent) = 9
    /\ writeDrops = 1

\* C20: no inbound frame makes the receive loop end by a failed assertion.
C20_AssertionsNeverFail == outcome.status # "Panic"

====
